---- MODULE Spec2Model ----
(***************************************************************************)
(* Availability / booking engine of the Hospital Management App            *)
(* (src/hospital_management/app.py).                                       *)
(*                                                                         *)
(* The stores are the two SQLite tables doctor_availability (slots) and    *)
(* appointments.  Every HTTP request runs on a connection of its own       *)
(* (get_db), so a request handler is a process; what it reads outside a    *)
(* transaction is a committed state, and what it writes becomes visible    *)
(* to the others at its commit.  SQLite admits one writer at a time: the   *)
(* write lock is taken by BEGIN IMMEDIATE or by the first INSERT / UPDATE  *)
(* / DELETE of an implicit transaction, and a connection that finds it     *)
(* taken waits for the busy timeout and then raises "database is locked".  *)
(***************************************************************************)
EXTENDS Integers, Naturals, Sequences, FiniteSets, TLC

\* ------------------------------------------------------------ bounds ----
NumProcs    == 2   \* concurrent request handlers (connections)
NumPatients == 2   \* rows of patients
NumDoctors  == 1   \* rows of doctors
HorizonDays == 2   \* days of the publish form (the code builds 7)
MaxSlotId   == 3   \* rows ever inserted into doctor_availability
MaxApptId   == 2   \* rows ever inserted into appointments
MaxCalls    == 5   \* requests ever received

Procs    == 1..NumProcs
Patients == 1..NumPatients
Doctors  == 1..NumDoctors
Days     == 1..HorizonDays

\* SQL NULL in an INTEGER column (booked_by).
NULL == 0

\* ----------------------------------------------------- time helpers ----
\* A stored time is the text "HH:MM"; it is modelled as the pair <<HH, MM>>.
time_to_minutes(t) == t[1] * 60 + t[2]

\* f"{h:02d}:{m:02d}" of a minute count
FormatTime(c) == <<c \div 60, c % 60>>

is_within_bounds(t) ==
    /\ time_to_minutes(<<9, 0>>) <= time_to_minutes(t)
    /\ time_to_minutes(t) <= time_to_minutes(<<21, 0>>)

is_5min_multiple(t) == t[2] % 5 = 0

\* Values a doctor may type into the form: in and out of bounds, aligned or not.
StartInputs == {<<8, 55>>, <<9, 0>>, <<9, 7>>}
EndInputs   == {<<9, 0>>, <<9, 10>>, <<9, 15>>, <<21, 5>>}
LenInputs  == {0, 5, 7, 10}

\* ------------------------------------------------------ the database ----
\* A row that was not found (fetchone() returned None).
NoRow == [id |-> 0]

SlotRow(id, doc, date, st, et) ==
    [id |-> id, doctor_id |-> doc, date |-> date, start_time |-> st,
     end_time |-> et, is_booked |-> 0, booked_by |-> NULL, booked_at |-> "NULL"]

ApptRow(id, pat, doc, date, time, et) ==
    [id |-> id, patient_id |-> pat, doctor_id |-> doc, date |-> date,
     time |-> time, end_time |-> et, status |-> "Booked"]

EmptyDb ==
    [doctor_availability |-> {}, appointments |-> {}, seq_da |-> 0, seq_ap |-> 0]

\* SELECT ... FROM doctor_availability WHERE id = ?
SelectSlot(D, id) ==
    IF \E s \in D.doctor_availability : s.id = id
    THEN CHOOSE s \in D.doctor_availability : s.id = id
    ELSE NoRow

\* SELECT ... FROM appointments WHERE id = ?
SelectAppt(D, id) ==
    IF \E a \in D.appointments : a.id = id
    THEN CHOOSE a \in D.appointments : a.id = id
    ELSE NoRow

\* The appointments table without its unique index.
ApptKeyTaken_NoIndex(D, doc, date, time, exceptId) == FALSE

\* idx_appointments_unique ON appointments(doctor_id, date, time)
ApptKeyTaken(D, doc, date, time, exceptId) ==
    \E a \in D.appointments :
        /\ a.id # exceptId
        /\ a.doctor_id = doc /\ a.date = date /\ a.time = time

\* The doctor_availability table without its unique index.
SlotKeyTaken_NoIndex(D, doc, date, st, et) == FALSE

\* idx_doctor_availability_unique ON doctor_availability(doctor_id, date, start_time, end_time)
SlotKeyTaken(D, doc, date, st, et) ==
    \E s \in D.doctor_availability :
        /\ s.doctor_id = doc /\ s.date = date
        /\ s.start_time = st /\ s.end_time = et

\* The result of one SQL statement: the database after it, or an IntegrityError
\* that leaves the database as it was (the statement is aborted, not the
\* transaction).
Ok(D)   == [ok |-> TRUE, db |-> D]
Fail(D) == [ok |-> FALSE, db |-> D]

\* ---------------------------------------------------- SQL statements ----
\* INSERT INTO appointments (...) VALUES (?,?,?,?,?,'Booked',?)
InsertAppointment(D, pat, doc, date, time, et) ==
    IF ApptKeyTaken(D, doc, date, time, 0)
    THEN Fail(D)
    ELSE Ok([D EXCEPT !.appointments =
                        @ \cup {ApptRow(D.seq_ap + 1, pat, doc, date, time, et)},
                      !.seq_ap = @ + 1])

\* UPDATE appointments SET status = ? WHERE id = ?
SetStatus(D, id, status) ==
    [D EXCEPT !.appointments =
        {IF a.id = id THEN [a EXCEPT !.status = status] ELSE a : a \in @}]

\* UPDATE appointments SET date = ?, time = ?, end_time = ?, status = 'Booked' WHERE id = ?
UpdateTime(D, id, date, time, et) ==
    LET old == SelectAppt(D, id) IN
    IF old.id = 0 THEN Ok(D)
    ELSE IF ApptKeyTaken(D, old.doctor_id, date, time, id) THEN Fail(D)
    ELSE Ok([D EXCEPT !.appointments =
                {IF a.id = id
                 THEN [a EXCEPT !.date = date, !.time = time, !.end_time = et,
                                !.status = "Booked"]
                 ELSE a : a \in @}])

\* A release that clears the flag and leaves the holder and the timestamp.
FreeRow_KeepsHolder(s) == [s EXCEPT !.is_booked = 0]

FreeRow(s) == [s EXCEPT !.is_booked = 0, !.booked_by = NULL, !.booked_at = "NULL"]

\* UPDATE doctor_availability SET is_booked = 0, booked_by = NULL, booked_at = NULL
\* WHERE doctor_id = ? AND date = ? AND start_time = ?
ReleaseAt(D, doc, date, st) ==
    [D EXCEPT !.doctor_availability =
        {IF s.doctor_id = doc /\ s.date = date /\ s.start_time = st
         THEN FreeRow(s) ELSE s : s \in @}]

\* ... WHERE doctor_id = ? AND date = ? AND start_time = ? AND booked_by = ?
ReleaseHeldBy(D, doc, date, st, by) ==
    [D EXCEPT !.doctor_availability =
        {IF s.doctor_id = doc /\ s.date = date /\ s.start_time = st /\ s.booked_by = by
         THEN FreeRow(s) ELSE s : s \in @}]

\* UPDATE doctor_availability SET is_booked = 1, booked_by = ?,
\* booked_at = datetime('now','localtime') WHERE id = ?
Claim(D, id, by) ==
    [D EXCEPT !.doctor_availability =
        {IF s.id = id
         THEN [s EXCEPT !.is_booked = 1, !.booked_by = by, !.booked_at = "localtime"]
         ELSE s : s \in @}]

\* A DELETE without the is_booked = 0 condition.
DeleteFree_AlsoHeld(D, doc, date) ==
    [D EXCEPT !.doctor_availability =
        {s \in @ : ~(s.doctor_id = doc /\ s.date = date)}]

\* DELETE FROM doctor_availability WHERE doctor_id = ? AND date = ? AND is_booked = 0
DeleteFree(D, doc, date) ==
    [D EXCEPT !.doctor_availability =
        {s \in @ : ~(s.doctor_id = doc /\ s.date = date /\ s.is_booked = 0)}]

\* INSERT INTO doctor_availability (doctor_id, date, start_time, end_time) VALUES (?,?,?,?)
InsertSlot(D, doc, date, st, et) ==
    IF SlotKeyTaken(D, doc, date, st, et)
    THEN Fail(D)
    ELSE Ok([D EXCEPT !.doctor_availability =
                        @ \cup {SlotRow(D.seq_da + 1, doc, date, st, et)},
                      !.seq_da = @ + 1])

\* ------------------------------------------------- publish (slots) ----
\* A loop that stops one slot early when the last slot ends exactly at the end.
RECURSIVE InsertGenerated_Strict(_, _, _, _, _, _)
InsertGenerated_Strict(D, doc, date, cursor, end_min, slot_length) ==
    IF cursor + slot_length < end_min
    THEN LET ins == InsertSlot(D, doc, date, FormatTime(cursor),
                               FormatTime(cursor + slot_length))
         IN  InsertGenerated_Strict(ins.db, doc, date, cursor + slot_length,
                                    end_min, slot_length)
    ELSE D

\* The while loop of doctor_availability: one INSERT per slot, an
\* IntegrityError of the unique index is swallowed.
RECURSIVE InsertGenerated(_, _, _, _, _, _)
InsertGenerated(D, doc, date, cursor, end_min, slot_length) ==
    IF cursor + slot_length <= end_min
    THEN LET slot_s == FormatTime(cursor)
             slot_e == FormatTime(cursor + slot_length)
             ins    == InsertSlot(D, doc, date, slot_s, slot_e)
         IN  InsertGenerated(ins.db, doc, date, cursor + slot_length, end_min,
                             slot_length)
    ELSE D

\* A publish that releases the day's Held slots before it clears the day.
PublishDay_ReleaseFirst(D, doc, date, entry, slot_length) ==
    LET released == [D EXCEPT !.doctor_availability =
                        {IF s.doctor_id = doc /\ s.date = date
                         THEN FreeRow(s) ELSE s : s \in @}]
        cleared  == DeleteFree(released, doc, date)
    IN  IF ~entry.enabled
        THEN cleared
        ELSE InsertGenerated(cleared, doc, date, time_to_minutes(entry.start_time),
                             time_to_minutes(entry.end_time), slot_length)

\* A publish that clears the day of all its slots, Held ones too.
PublishDay_DeletesAll(D, doc, date, entry, slot_length) ==
    LET cleared == [D EXCEPT !.doctor_availability =
                       {s \in @ : ~(s.doctor_id = doc /\ s.date = date)}]
    IN  IF ~entry.enabled
        THEN cleared
        ELSE InsertGenerated(cleared, doc, date, time_to_minutes(entry.start_time),
                             time_to_minutes(entry.end_time), slot_length)

\* One entry of to_process: (iso, None, None) for an unchecked day.
PublishDay(D, doc, date, entry, slot_length) ==
    LET cleared == DeleteFree(D, doc, date) IN
    IF ~entry.enabled
    THEN cleared
    ELSE InsertGenerated(cleared, doc, date, time_to_minutes(entry.start_time),
                         time_to_minutes(entry.end_time), slot_length)

RECURSIVE PublishFrom(_, _, _, _)
PublishFrom(D, doc, day, form) ==
    IF day > HorizonDays
    THEN D
    ELSE PublishFrom(PublishDay(D, doc, day, form.days[day], form.slot_length),
                     doc, day + 1, form)

\* An unchecked day: its start and end fields are not read.
DayOff == [enabled |-> FALSE, start_time |-> <<9, 0>>, end_time |-> <<9, 0>>]

\* The form of doctor_availability POST.
DayInputs ==
    {DayOff} \cup
    {[enabled |-> TRUE, start_time |-> s, end_time |-> e] :
        s \in StartInputs, e \in EndInputs}

\* The forms Next draws leave every day but the first unchecked.
Forms ==
    {[days |-> [d \in Days |-> IF d = 1 THEN e ELSE DayOff], slot_length |-> n] :
        e \in DayInputs, n \in LenInputs}

NoForm == [days |-> <<>>, slot_length |-> 0]

\* A validation that does not look at the 5-minute alignment.
ValidDay_NoAlignment(entry) ==
    \/ ~entry.enabled
    \/ /\ is_within_bounds(entry.start_time) /\ is_within_bounds(entry.end_time)
       /\ time_to_minutes(entry.start_time) < time_to_minutes(entry.end_time)

\* The validation of the POST, before anything is written.
ValidDay(entry) ==
    \/ ~entry.enabled
    \/ /\ is_5min_multiple(entry.start_time) /\ is_5min_multiple(entry.end_time)
       /\ is_within_bounds(entry.start_time) /\ is_within_bounds(entry.end_time)
       /\ time_to_minutes(entry.start_time) < time_to_minutes(entry.end_time)

ValidForm(form) ==
    /\ form.slot_length > 0 /\ form.slot_length % 5 = 0
    /\ \A d \in Days : ValidDay(form.days[d])

\* How many rows a form can insert at most (used to cap the row ids).
RowsOfDay(entry, slot_length) ==
    IF entry.enabled
    THEN (time_to_minutes(entry.end_time) - time_to_minutes(entry.start_time))
            \div slot_length
    ELSE 0

RECURSIVE RowsFrom(_, _)
RowsFrom(form, day) ==
    IF day > HorizonDays THEN 0
    ELSE RowsOfDay(form.days[day], form.slot_length) + RowsFrom(form, day + 1)

RowsOf(form) == IF form = NoForm THEN 0 ELSE RowsFrom(form, 1)

\* ------------------------------------------------ transaction bodies ----
Outcome(r, D) == [res |-> r, db |-> D]

\* A Book that claims the slot first and does not roll back when the INSERT fails.
BookTxn_NoRollback(D, patient_id, slot_id) ==
    LET fresh == SelectSlot(D, slot_id) IN
    IF fresh.id = 0 \/ fresh.is_booked = 1
    THEN Outcome("SlotUnavailable", D)
    ELSE LET claimed == Claim(D, slot_id, patient_id)
             ins     == InsertAppointment(claimed, patient_id, fresh.doctor_id,
                                          fresh.date, fresh.start_time, fresh.end_time)
         IN  IF ~ins.ok
             THEN Outcome("IntegrityError", claimed)
             ELSE Outcome("ok", ins.db)

\* A Book that does not look at is_booked when it re-reads the slot.
BookTxn_IgnoresHeld(D, patient_id, slot_id) ==
    LET fresh == SelectSlot(D, slot_id) IN
    IF fresh.id = 0
    THEN Outcome("SlotUnavailable", D)
    ELSE LET ins == InsertAppointment(D, patient_id, fresh.doctor_id, fresh.date,
                                      fresh.start_time, fresh.end_time)
         IN  IF ~ins.ok
             THEN Outcome("IntegrityError", D)
             ELSE Outcome("ok", Claim(ins.db, slot_id, patient_id))

\* A Book without the "You already have booking at this time" guard.
BookTxn_NoDuplicateGuard(D, patient_id, slot_id) ==
    LET fresh == SelectSlot(D, slot_id) IN
    IF fresh.id = 0 \/ fresh.is_booked = 1
    THEN Outcome("SlotUnavailable", D)
    ELSE LET ins == InsertAppointment(D, patient_id, fresh.doctor_id, fresh.date,
                                      fresh.start_time, fresh.end_time)
         IN  IF ~ins.ok
             THEN Outcome("IntegrityError", D)
             ELSE Outcome("ok", Claim(ins.db, slot_id, patient_id))

\* patient_book_slot, from BEGIN IMMEDIATE to commit / ROLLBACK
BookTxn(D, patient_id, slot_id) ==
    LET fresh == SelectSlot(D, slot_id) IN
    IF fresh.id = 0 \/ fresh.is_booked = 1
    THEN Outcome("SlotUnavailable", D)
    ELSE IF \E a \in D.appointments :
                /\ a.patient_id = patient_id /\ a.doctor_id = fresh.doctor_id
                /\ a.date = fresh.date /\ a.time = fresh.start_time
                /\ a.status = "Booked"
    THEN Outcome("DuplicateBooking", D)
    ELSE LET ins == InsertAppointment(D, patient_id, fresh.doctor_id, fresh.date,
                                      fresh.start_time, fresh.end_time)
         IN  IF ~ins.ok
             THEN Outcome("IntegrityError", D)
             ELSE Outcome("ok", Claim(ins.db, slot_id, patient_id))

\* A cancel that marks the appointment and leaves its slot as it is.
CancelTxn_KeepsSlot(D, who, appt) ==
    Outcome("ok", SetStatus(D, appt.id, "Cancelled"))

\* The two UPDATEs of the cancel handlers; the doctor's release names the holder.
CancelTxn(D, who, appt) ==
    LET marked == SetStatus(D, appt.id, "Cancelled") IN
    IF who = "doctor"
    THEN Outcome("ok", ReleaseHeldBy(marked, appt.doctor_id, appt.date, appt.time,
                                     appt.patient_id))
    ELSE Outcome("ok", ReleaseAt(marked, appt.doctor_id, appt.date, appt.time))

\* doctor_complete_appointment POST: the status UPDATE happens for an
\* appointment that was read as Booked; the treatment row is outside the model.
CompleteTxn(D, appt) ==
    IF appt.status = "Booked"
    THEN Outcome("ok", SetStatus(D, appt.id, "Completed"))
    ELSE Outcome("ok", D)

\* The checks patient_request_reschedule makes on the target slot it read.
RescheduleCheck(fresh, appt) ==
    IF fresh.id = 0 THEN "SlotUnavailable"
    ELSE IF fresh.is_booked = 1 THEN "SlotUnavailable"
    ELSE IF fresh.doctor_id # appt.doctor_id THEN "ProviderMismatch"
    ELSE "ok"

\* A reschedule that commits what it has written when the UPDATE of the
\* appointment fails.
RescheduleWrites_NoRollback(D, appt, patient_id, fresh) ==
    LET released == ReleaseHeldBy(D, appt.doctor_id, appt.date, appt.time, patient_id)
        moved    == UpdateTime(released, appt.id, fresh.date, fresh.start_time,
                               fresh.end_time)
    IN  IF ~moved.ok
        THEN Outcome("IntegrityError", released)
        ELSE Outcome("ok", Claim(moved.db, fresh.id, patient_id))

\* The three UPDATEs of patient_request_reschedule and its commit / ROLLBACK.
RescheduleWrites(D, appt, patient_id, fresh) ==
    LET released == ReleaseHeldBy(D, appt.doctor_id, appt.date, appt.time, patient_id)
        moved    == UpdateTime(released, appt.id, fresh.date, fresh.start_time,
                               fresh.end_time)
    IN  IF ~moved.ok
        THEN Outcome("IntegrityError", D)
        ELSE Outcome("ok", Claim(moved.db, fresh.id, patient_id))

\* The reschedule whose BEGIN IMMEDIATE succeeded: the target slot is read
\* inside the transaction.
RescheduleTxn(D, appt, patient_id, slot_id) ==
    LET fresh == SelectSlot(D, slot_id)
        chk   == RescheduleCheck(fresh, appt)
    IN  IF chk # "ok" THEN Outcome(chk, D)
        ELSE RescheduleWrites(D, appt, patient_id, fresh)

PublishTxn(D, doc, form) == Outcome("ok", PublishFrom(D, doc, 1, form))

\* ------------------------------------------------------------ state ----
VARIABLES
    db,     \* the committed database: both tables and their AUTOINCREMENT counters
    lock,   \* the connection holding SQLite's write lock, 0 when it is free
    pc,     \* where each request handler stands
    loc,    \* the handler's local variables (session, arguments, rows it read)
    last,   \* the response sent last: which request it answers and how it ended
    calls   \* how many requests have been received

vars == <<db, lock, pc, loc, last, calls>>

NoResponse == [op |-> "none", who |-> "none", res |-> "none"]

Idle ==
    [op |-> "none", who |-> "none", actor |-> 0, slot_id |-> 0,
     appt |-> NoRow, fresh |-> NoRow, form |-> NoForm]

Init ==
    /\ db = EmptyDb
    /\ lock = 0
    /\ pc = [p \in Procs |-> "idle"]
    /\ loc = [p \in Procs |-> Idle]
    /\ last = NoResponse
    /\ calls = 0

\* A handler returns: the request ends with result r and the connection is
\* closed (close_db).
Finish(p, r, l) ==
    /\ pc' = [pc EXCEPT ![p] = "idle"]
    /\ loc' = [loc EXCEPT ![p] = Idle]
    /\ last' = [op |-> l.op, who |-> l.who, res |-> r]

\* The handler goes on to its next statement.
Goto(p, label, l) ==
    /\ pc' = [pc EXCEPT ![p] = label]
    /\ loc' = [loc EXCEPT ![p] = l]
    /\ UNCHANGED last

\* A request arrives at an idle handler.
Receive(p) ==
    /\ pc[p] = "idle"
    /\ calls < MaxCalls
    /\ calls' = calls + 1

\* Rows that requests under way may still insert (caps the row ids).
RECURSIVE PendingRows(_)
PendingRows(q) == IF q = 0 THEN 0 ELSE RowsOf(loc[q].form) + PendingRows(q - 1)

\* Rows this form would insert into the database as it is now (caps the row ids).
NewRows(D, doc, form) == PublishFrom(D, doc, 1, form).seq_da - D.seq_da

PendingBooks == Cardinality({q \in Procs : pc[q] \in {"book_begin", "book_txn"}})

\* ------------------------------------------------------------- book ----
\* patient_book_slot POST up to BEGIN IMMEDIATE: the slot is looked up first.
BookStart(p, patient_id, slot_id) ==
    /\ Receive(p)
    /\ db.seq_ap + PendingBooks + 1 <= MaxApptId
    /\ LET slot == SelectSlot(db, slot_id)
           l    == [Idle EXCEPT !.op = "book", !.who = "patient",
                                !.actor = patient_id, !.slot_id = slot_id]
       IN  IF slot.id = 0
           THEN Finish(p, "SlotNotFound", l)
           ELSE Goto(p, "book_begin", l)
    /\ UNCHANGED <<db, lock>>

\* A commit that leaves the write lock taken.
BookCommit_KeepsLock(p) ==
    /\ pc[p] = "book_txn"
    /\ LET out == BookTxn(db, loc[p].actor, loc[p].slot_id)
       IN  /\ db' = out.db
           /\ Finish(p, out.res, loc[p])
    /\ UNCHANGED <<lock, calls>>

\* From the re-read of the slot to db.commit() or ROLLBACK.
BookCommit(p) ==
    /\ pc[p] = "book_txn"
    /\ LET out == BookTxn(db, loc[p].actor, loc[p].slot_id)
       IN  /\ db' = out.db
           /\ Finish(p, out.res, loc[p])
    /\ lock' = 0
    /\ UNCHANGED calls

\* ----------------------------------------------------------- cancel ----
\* The read and the status check of the three cancel handlers.
CancelRead(D, who, actor, appointment_id) ==
    LET row == SelectAppt(D, appointment_id) IN
    IF row.id # 0 /\ who = "doctor" /\ row.doctor_id # actor THEN NoRow ELSE row

\* A status check that refuses Completed appointments only.
Cancellable_NotCompleted(appt) == appt.status # "Completed"

\* "Only allow cancelling if currently Booked"
Cancellable(appt) == appt.status = "Booked"

CancelStart(p, who, actor, appointment_id) ==
    /\ Receive(p)
    /\ LET appt == CancelRead(db, who, actor, appointment_id)
           l    == [Idle EXCEPT !.op = "cancel", !.who = who, !.actor = actor,
                                !.appt = appt]
       IN  IF appt.id = 0
           THEN Finish(p, "NotFound", l)
           ELSE IF ~Cancellable(appt)
           THEN Finish(p, "NotCancellable", l)
           ELSE Goto(p, "cancel_begin", l)
    /\ UNCHANGED <<db, lock>>

CancelCommit(p) ==
    /\ pc[p] = "cancel_txn"
    /\ LET out == CancelTxn(db, loc[p].who, loc[p].appt)
       IN  /\ db' = out.db
           /\ Finish(p, out.res, loc[p])
    /\ lock' = 0
    /\ UNCHANGED calls

\* --------------------------------------------------------- complete ----
CompleteStart(p, doctor_id, appointment_id) ==
    /\ Receive(p)
    /\ LET appt == CancelRead(db, "doctor", doctor_id, appointment_id)
           l    == [Idle EXCEPT !.op = "complete", !.who = "doctor",
                                !.actor = doctor_id, !.appt = appt]
       IN  IF appt.id = 0
           THEN Finish(p, "NotFound", l)
           ELSE IF appt.status = "Cancelled"
           THEN Finish(p, "Refused", l)
           ELSE Goto(p, "complete_begin", l)
    /\ UNCHANGED <<db, lock>>

CompleteCommit(p) ==
    /\ pc[p] = "complete_txn"
    /\ LET out == CompleteTxn(db, loc[p].appt)
       IN  /\ db' = out.db
           /\ Finish(p, out.res, loc[p])
    /\ lock' = 0
    /\ UNCHANGED calls

\* ------------------------------------------------------- reschedule ----
\* A reschedule that does not compare the appointment's patient with the session's.
RescheduleStart_NoOwnerCheck(p, patient_id, appointment_id, slot_id) ==
    /\ Receive(p)
    /\ LET appt == SelectAppt(db, appointment_id)
           l    == [Idle EXCEPT !.op = "reschedule", !.who = "patient",
                                !.actor = patient_id, !.slot_id = slot_id,
                                !.appt = appt]
       IN  IF appt.id = 0
           THEN Finish(p, "NotFound", l)
           ELSE Goto(p, "resch_begin", l)
    /\ UNCHANGED <<db, lock>>

\* patient_request_reschedule POST up to BEGIN IMMEDIATE: the appointment is
\* read, and only its owner is checked.
RescheduleStart(p, patient_id, appointment_id, slot_id) ==
    /\ Receive(p)
    /\ LET appt == SelectAppt(db, appointment_id)
           l    == [Idle EXCEPT !.op = "reschedule", !.who = "patient",
                                !.actor = patient_id, !.slot_id = slot_id,
                                !.appt = appt]
       IN  IF appt.id = 0 \/ appt.patient_id # patient_id
           THEN Finish(p, "NotFound", l)
           ELSE Goto(p, "resch_begin", l)
    /\ UNCHANGED <<db, lock>>

\* BEGIN IMMEDIATE succeeded: checks, writes and commit in one transaction.
RescheduleCommit(p) ==
    /\ pc[p] = "resch_txn"
    /\ LET out == RescheduleTxn(db, loc[p].appt, loc[p].actor, loc[p].slot_id)
       IN  /\ db' = out.db
           /\ Finish(p, out.res, loc[p])
    /\ lock' = 0
    /\ UNCHANGED calls

\* BEGIN IMMEDIATE failed and was skipped: the target slot is read in
\* autocommit mode; the ROLLBACKs of the failing checks have nothing to undo.
RescheduleReadUnlocked(p) ==
    /\ pc[p] = "resch_fresh"
    /\ LET fresh == SelectSlot(db, loc[p].slot_id)
           chk   == RescheduleCheck(fresh, loc[p].appt)
       IN  IF chk # "ok"
           THEN Finish(p, chk, loc[p])
           ELSE Goto(p, "resch_upd_begin", [loc[p] EXCEPT !.fresh = fresh])
    /\ UNCHANGED <<db, lock, calls>>

\* ... and the three UPDATEs run in the implicit transaction of the first.
RescheduleCommitUnlocked(p) ==
    /\ pc[p] = "resch_upd_txn"
    /\ LET out == RescheduleWrites(db, loc[p].appt, loc[p].actor, loc[p].fresh)
       IN  /\ db' = out.db
           /\ Finish(p, out.res, loc[p])
    /\ lock' = 0
    /\ UNCHANGED calls

\* ---------------------------------------------------------- publish ----
\* doctor_availability POST: the form is validated before anything is written.
PublishStart(p, doctor_id, form) ==
    /\ Receive(p)
    /\ LET l == [Idle EXCEPT !.op = "publish", !.who = "doctor", !.actor = doctor_id]
       IN  IF ~ValidForm(form)
           THEN Finish(p, "ValidationError", l)
           ELSE /\ db.seq_da + PendingRows(NumProcs) + NewRows(db, doctor_id, form)
                      <= MaxSlotId
                /\ Goto(p, "publish_begin", [l EXCEPT !.form = form])
    /\ UNCHANGED <<db, lock>>

PublishCommit(p) ==
    /\ pc[p] = "publish_txn"
    /\ LET out == PublishTxn(db, loc[p].actor, loc[p].form)
       IN  /\ db' = out.db
           /\ Finish(p, out.res, loc[p])
    /\ lock' = 0
    /\ UNCHANGED calls

\* ------------------------------------------------- the write lock ----
\* The statement that opens a transaction, and where the handler goes when it
\* gets the lock and when "database is locked" is raised instead.
Begins ==
    [book_begin      |-> [got |-> "book_txn",      busy |-> "Locked"],
     cancel_begin    |-> [got |-> "cancel_txn",    busy |-> "Locked"],
     complete_begin  |-> [got |-> "complete_txn",  busy |-> "Locked"],
     resch_begin     |-> [got |-> "resch_txn",     busy |-> "resch_fresh"],
     resch_upd_begin |-> [got |-> "resch_upd_txn", busy |-> "Locked"],
     publish_begin   |-> [got |-> "publish_txn",   busy |-> "Locked"]]

\* BEGIN IMMEDIATE, or the first write of an implicit transaction, gets the lock.
Begin(p) ==
    /\ pc[p] \in DOMAIN Begins
    /\ lock = 0
    /\ lock' = p
    /\ pc' = [pc EXCEPT ![p] = Begins[pc[p]].got]
    /\ UNCHANGED <<db, loc, last, calls>>

\* The lock is held by another connection for longer than the busy timeout:
\* "database is locked" is raised.  The reschedule swallows the error of its
\* BEGIN IMMEDIATE and goes on; everywhere else the request ends without a
\* write (the handler catches the error and rolls back, or the patient's and
\* the administrator's cancel let it escape and close_db drops the connection).
Busy(p) ==
    /\ pc[p] \in DOMAIN Begins
    /\ lock # 0
    /\ LET to == Begins[pc[p]].busy IN
       IF to = "resch_fresh"
       THEN Goto(p, to, loc[p])
       ELSE Finish(p, to, loc[p])
    /\ UNCHANGED <<db, lock, calls>>

SlotIds == 1..MaxSlotId
ApptIds == 1..MaxApptId

Next ==
    \E p \in Procs :
        \/ \E u \in Patients, s \in SlotIds : BookStart(p, u, s)
        \/ BookCommit(p)
        \/ \E u \in Patients, a \in ApptIds : CancelStart(p, "patient", u, a)
        \/ \E d \in Doctors, a \in ApptIds : CancelStart(p, "doctor", d, a)
        \/ \E a \in ApptIds : CancelStart(p, "admin", 0, a)
        \/ CancelCommit(p)
        \/ \E d \in Doctors, a \in ApptIds : CompleteStart(p, d, a)
        \/ CompleteCommit(p)
        \/ \E u \in Patients, a \in ApptIds, s \in SlotIds : RescheduleStart(p, u, a, s)
        \/ RescheduleCommit(p)
        \/ RescheduleReadUnlocked(p)
        \/ RescheduleCommitUnlocked(p)
        \/ \E d \in Doctors, f \in Forms : PublishStart(p, d, f)
        \/ PublishCommit(p)
        \/ Begin(p)
        \/ Busy(p)

Spec == Init /\ [][Next]_vars

\* ------------------------------------------------------ scheduling ----
\* The steps of a request that is under way: every statement of a handler
\* returns, a write lock that stays taken ends in "database is locked" after
\* the busy timeout of sqlite3.connect (5 seconds by default), and the server
\* runs each handler to its end.
Continue(p) ==
    \/ BookCommit(p) \/ CancelCommit(p)
    \/ RescheduleCommit(p) \/ RescheduleReadUnlocked(p) \/ RescheduleCommitUnlocked(p)
    \/ Begin(p) \/ Busy(p)

\* The doctor has published 09:00-09:10 in 5-minute slots; from then on
\* patients, the doctor and the administrator book, cancel and reschedule.
LiveInit ==
    /\ db = PublishDay(EmptyDb, 1, 1,
                       [enabled |-> TRUE, start_time |-> <<9, 0>>,
                        end_time |-> <<9, 10>>], 5)
    /\ lock = 0
    /\ pc = [p \in Procs |-> "idle"]
    /\ loc = [p \in Procs |-> Idle]
    /\ last = [op |-> "publish", who |-> "doctor", res |-> "ok"]
    /\ calls = 1

LiveNext ==
    \E p \in Procs :
        \/ \E u \in Patients, s \in SlotIds : BookStart(p, u, s)
        \/ BookCommit(p)
        \/ \E u \in Patients, a \in ApptIds : CancelStart(p, "patient", u, a)
        \/ \E d \in Doctors, a \in ApptIds : CancelStart(p, "doctor", d, a)
        \/ \E a \in ApptIds : CancelStart(p, "admin", 0, a)
        \/ CancelCommit(p)
        \/ \E u \in Patients, a \in ApptIds, s \in SlotIds : RescheduleStart(p, u, a, s)
        \/ RescheduleCommit(p)
        \/ RescheduleReadUnlocked(p)
        \/ RescheduleCommitUnlocked(p)
        \/ Begin(p)
        \/ Busy(p)

LiveSpec == LiveInit /\ [][LiveNext]_vars /\ \A p \in Procs : WF_vars(Continue(p))

\* ------------------------------------------ one request at a time ----
\* No request is under way.
Alone == lock = 0 /\ \A q \in Procs : pc[q] = "idle"

\* The server handles one request from its first statement to its last before
\* it takes the next one: no BEGIN IMMEDIATE ever finds the lock taken.
SeqNext ==
    \E p \in Procs :
        \/ Alone /\ \E u \in Patients, s \in SlotIds : BookStart(p, u, s)
        \/ BookCommit(p)
        \/ Alone /\ \E u \in Patients, a \in ApptIds : CancelStart(p, "patient", u, a)
        \/ Alone /\ \E d \in Doctors, a \in ApptIds : CancelStart(p, "doctor", d, a)
        \/ Alone /\ \E a \in ApptIds : CancelStart(p, "admin", 0, a)
        \/ CancelCommit(p)
        \/ Alone /\ \E d \in Doctors, a \in ApptIds : CompleteStart(p, d, a)
        \/ CompleteCommit(p)
        \/ Alone /\ \E u \in Patients, a \in ApptIds, s \in SlotIds :
                        RescheduleStart(p, u, a, s)
        \/ RescheduleCommit(p)
        \/ Alone /\ \E d \in Doctors, f \in Forms : PublishStart(p, d, f)
        \/ PublishCommit(p)
        \/ Begin(p)

SeqSpec == Init /\ [][SeqNext]_vars

\* --------------------------------------- the slot generator alone ----
\* One publish on an empty table, over a wider choice of valid windows and slot
\* lengths than Next draws: what it inserts is what the generator produces.
GenStarts == {<<9, 0>>, <<9, 5>>, <<9, 15>>, <<9, 30>>, <<20, 40>>}
GenEnds   == {<<9, 5>>, <<9, 10>>, <<9, 25>>, <<10, 0>>, <<10, 10>>, <<21, 0>>}
GenLens   == {5, 10, 15, 20, 25, 60}
GenMaxWindow == 90   \* minutes of the longest window drawn

GenForms ==
    {[days |-> [d \in Days |->
                  IF d = 1
                  THEN [enabled |-> TRUE, start_time |-> s, end_time |-> e]
                  ELSE DayOff],
      slot_length |-> n] : s \in GenStarts, e \in GenEnds, n \in GenLens}

\* The doctor's POST has passed the validation and holds the write lock.
GenInit ==
    /\ db = EmptyDb
    /\ lock = 1
    /\ pc = [p \in Procs |-> IF p = 1 THEN "publish_txn" ELSE "idle"]
    /\ \E f \in GenForms :
          /\ ValidForm(f)
          /\ time_to_minutes(f.days[1].end_time)
                - time_to_minutes(f.days[1].start_time) <= GenMaxWindow
          /\ loc = [p \in Procs |->
                      IF p = 1
                      THEN [Idle EXCEPT !.op = "publish", !.who = "doctor",
                                        !.actor = 1, !.form = f]
                      ELSE Idle]
    /\ last = NoResponse
    /\ calls = 1

GenNext == PublishCommit(1)

GenSpec == GenInit /\ [][GenNext]_vars

\* -------------------------------------------- the validation alone ----
\* The POST of the form with every day filled in freely, valid or not, on slots
\* left by an earlier publish and booking.
ValWindows ==
    {<<<<9, 0>>, <<9, 10>>>>,    \* valid
     <<<<9, 7>>, <<9, 10>>>>,    \* start off the 5-minute grid
     <<<<9, 0>>, <<9, 12>>>>,    \* end off the 5-minute grid
     <<<<8, 55>>, <<9, 10>>>>,   \* start before 09:00
     <<<<9, 0>>, <<21, 5>>>>,    \* end after 21:00
     <<<<9, 10>>, <<9, 10>>>>}   \* start not before end

ValDayInputs ==
    {DayOff} \cup
    {[enabled |-> TRUE, start_time |-> w[1], end_time |-> w[2]] : w \in ValWindows}

ValForms == [days : [Days -> ValDayInputs], slot_length : LenInputs]

\* The tables after one publish, and after patient 1 booked its first slot.
ValDbs ==
    LET published == {PublishFrom(EmptyDb, 1, 1, f) :
                        f \in {g \in ValForms :
                                  ValidForm(g) /\ RowsOf(g) \in 1..MaxSlotId}}
    IN  published \cup {BookTxn(D, 1, 1).db : D \in published}

ValInit ==
    /\ db \in ValDbs
    /\ lock = 0
    /\ pc = [p \in Procs |-> "idle"]
    /\ loc = [p \in Procs |-> Idle]
    /\ last = NoResponse
    /\ calls = 0

ValNext == \E p \in Procs, d \in Doctors, f \in ValForms : PublishStart(p, d, f)

ValSpec == ValInit /\ [][ValNext]_vars

\* =================================================================
\* Properties
\* =================================================================
\* The appointment rows at a slot's (doctor_id, date, start_time).
RowsAt(D, s) ==
    {a \in D.appointments :
        a.doctor_id = s.doctor_id /\ a.date = s.date /\ a.time = s.start_time}

\* The slot rows at an appointment's (doctor_id, date, time).
SlotsAt(D, a) ==
    {s \in D.doctor_availability :
        s.doctor_id = a.doctor_id /\ s.date = a.date /\ s.start_time = a.time}

IsFree(s) == s.is_booked = 0 /\ s.booked_by = NULL /\ s.booked_at = "NULL"

HeldBy(D, id, u) ==
    \E s \in D.doctor_availability : s.id = id /\ s.is_booked = 1 /\ s.booked_by = u

\* Handler p ends its request with this step, after at least one step of its own.
Ends(p, op) == loc[p].op = op /\ pc[p] # "idle" /\ pc'[p] = "idle"

\* C1: a Book that re-reads its slot as Free, at a provider/date/time that no
\* appointment occupies (none at all, or only Cancelled ones), is the winner: it
\* succeeds, the slot is Held by it and exactly one appointment row that is not
\* Cancelled has the slot's provider/date/time; a Book that re-reads the slot as
\* Held or gone fails with SlotUnavailable and changes nothing.  So of N Books
\* racing for one Free slot exactly one wins.
C1_OneBookWins ==
    [][\A p \in Procs :
         (pc[p] = "book_txn" /\ pc'[p] = "idle") =>
            LET s == SelectSlot(db, loc[p].slot_id) IN
            IF s.id = 0 \/ s.is_booked = 1
            THEN last'.res = "SlotUnavailable" /\ db' = db
            ELSE (\A a \in RowsAt(db, s) : a.status = "Cancelled")
                 => /\ last'.res = "ok"
                    /\ HeldBy(db', s.id, loc[p].actor)
                    /\ Cardinality({a \in RowsAt(db', s) :
                                       a.status # "Cancelled"}) = 1
      ]_vars

\* C2: a Book or a Reschedule whose target slot is already Held when it commits
\* does not succeed; one that succeeds on a Free slot leaves the slot Held by
\* its requester, who is the requester of the only Booked appointment there.
C2_AtMostOneClaimCommits ==
    [][\A p \in Procs :
         ((Ends(p, "book") \/ Ends(p, "reschedule")) /\ last'.res = "ok") =>
            LET s == SelectSlot(db, loc[p].slot_id) IN
            s.id # 0 =>
               /\ s.is_booked = 0
               /\ HeldBy(db', s.id, loc[p].actor)
               /\ \E a \in RowsAt(db', s) :
                     /\ a.status = "Booked" /\ a.patient_id = loc[p].actor
                     /\ \A b \in RowsAt(db', s) : b.status = "Booked" => b = a
      ]_vars

\* C3: every step of a Book request either leaves both tables as they were or
\* adds one Booked appointment of the requester at the slot's provider, date
\* and start time and makes that slot, and no other, Held by the requester.
C3_BookAllOrNothing ==
    [][\A p \in Procs :
         ((loc[p].op = "book" \/ loc'[p].op = "book") /\ pc'[p] # pc[p]) =>
            \/ db' = db
            \/ LET s == SelectSlot(db, loc[p].slot_id)
                   a == ApptRow(db.seq_ap + 1, loc[p].actor, s.doctor_id, s.date,
                                s.start_time, s.end_time)
               IN  /\ s.id # 0
                   /\ a \notin db.appointments
                   /\ db'.appointments = db.appointments \cup {a}
                   /\ db'.doctor_availability =
                        (db.doctor_availability \ {s}) \cup
                        {[s EXCEPT !.is_booked = 1, !.booked_by = loc[p].actor,
                                   !.booked_at = "localtime"]}
      ]_vars

\* A Book whose INSERT was rejected by the unique key has ended, and nothing is
\* Held and nothing Booked: neither write stayed.
C3_Witness ==
    /\ last.op = "book" /\ last.res = "IntegrityError"
    /\ \A s \in db.doctor_availability : IsFree(s)
    /\ \A a \in db.appointments : a.status = "Cancelled"

\* C4: no two appointment rows have the same (doctor_id, date, time).
C4_UniqueAppointmentKey ==
    \A a, b \in db.appointments :
        (a.doctor_id = b.doctor_id /\ a.date = b.date /\ a.time = b.time) => a = b

\* Two appointments exist and a reschedule onto the other's key was rejected.
C4_Witness ==
    /\ last.op = "reschedule" /\ last.res = "IntegrityError"
    /\ Cardinality(db.appointments) = 2

\* C5: a Book of a Free slot at whose provider/date/time every appointment row
\* is Cancelled succeeds.
C5_CancelledKeyCanBeBooked ==
    [][\A p \in Procs :
         (pc[p] = "book_txn" /\ pc'[p] = "idle") =>
            LET s == SelectSlot(db, loc[p].slot_id) IN
            (/\ s.id # 0 /\ s.is_booked = 0
             /\ RowsAt(db, s) # {}
             /\ \A a \in RowsAt(db, s) : a.status = "Cancelled")
            => /\ last'.res = "ok"
               /\ HeldBy(db', s.id, loc[p].actor)
      ]_vars

\* C6: when a cancel of a Booked appointment commits, the appointment is
\* Cancelled and every slot at its provider/date/time is Free, holder and
\* timestamp cleared.
C6_CancelFreesTheSlot ==
    [][\A p \in Procs :
         (pc[p] = "cancel_txn" /\ pc'[p] = "idle"
            /\ SelectAppt(db, loc[p].appt.id).status = "Booked") =>
            LET a == SelectAppt(db', loc[p].appt.id) IN
            /\ last'.res = "ok"
            /\ a.status = "Cancelled"
            /\ \A s \in SlotsAt(db', a) : IsFree(s)
      ]_vars

\* C7: a cancel request, whoever sends it, for an appointment that is already
\* Cancelled ends at once with NotCancellable and changes no appointment and no
\* slot.
C7_SecondCancelIsNoOp ==
    [][\A p \in Procs, a \in ApptIds :
         \A w \in {<<"patient", u>> : u \in Patients} \cup
                  {<<"doctor", d>> : d \in Doctors} \cup {<<"admin", 0>>} :
            (CancelStart(p, w[1], w[2], a)
               /\ CancelRead(db, w[1], w[2], a).id # 0
               /\ CancelRead(db, w[1], w[2], a).status = "Cancelled")
            => /\ pc'[p] = "idle"
               /\ last' = [op |-> "cancel", who |-> w[1], res |-> "NotCancellable"]
               /\ db' = db
      ]_vars

\* A cancel was refused as NotCancellable while every appointment is Cancelled.
C7_Witness ==
    /\ last.op = "cancel" /\ last.res = "NotCancellable"
    /\ db.appointments # {}
    /\ \A a \in db.appointments : a.status = "Cancelled"
    /\ \A p \in Procs : pc[p] = "idle"

\* C8: a Reschedule of a Booked appointment, whose slot A the requester holds,
\* to a Free slot B of the same provider, at a date/time no other Booked or
\* Completed appointment occupies, succeeds: same row, Booked, at B's
\* date/time/end_time; A Free; B Held by the requester; one Booked row at B.
C8_RescheduleMoves ==
    [][\A p \in Procs :
         LET cur == SelectAppt(db, loc[p].appt.id)
             B   == SelectSlot(db, loc[p].slot_id)
         IN  (/\ pc[p] = "resch_txn" /\ pc'[p] = "idle"
              /\ cur = loc[p].appt /\ cur.status = "Booked"
              /\ \E A \in SlotsAt(db, cur) :
                    A.is_booked = 1 /\ A.booked_by = cur.patient_id
              /\ B.id # 0 /\ B.is_booked = 0 /\ B.doctor_id = cur.doctor_id
              /\ \A a \in RowsAt(db, B) : a.id # cur.id => a.status = "Cancelled")
             => /\ last'.res = "ok"
                /\ SelectAppt(db', cur.id) =
                     [cur EXCEPT !.date = B.date, !.time = B.start_time,
                                 !.end_time = B.end_time]
                /\ db'.seq_ap = db.seq_ap
                /\ \A A \in SlotsAt(db', cur) : A.id # B.id => IsFree(A)
                /\ HeldBy(db', B.id, cur.patient_id)
                /\ Cardinality({a \in RowsAt(db', B) : a.status = "Booked"}) = 1
      ]_vars

\* C9: in no committed state does a requester hold more slots than they have
\* appointments, and every Booked appointment has a slot at its
\* provider/date/time that its requester holds.
C9_NeitherTwoSlotsNorNone ==
    /\ \A u \in Patients :
          Cardinality({s \in db.doctor_availability :
                          s.is_booked = 1 /\ s.booked_by = u})
            <= Cardinality({a \in db.appointments : a.patient_id = u})
    /\ \A a \in db.appointments :
          a.status = "Booked" =>
             \E s \in SlotsAt(db, a) : s.is_booked = 1 /\ s.booked_by = a.patient_id

\* C10: a Reschedule of an appointment that is Completed or Cancelled does not
\* succeed and changes neither table.
C10_OnlyBookedIsRescheduled ==
    [][\A p \in Procs :
         (Ends(p, "reschedule")
            /\ SelectAppt(db, loc[p].appt.id).status \in {"Completed", "Cancelled"})
         => /\ last'.res # "ok"
            /\ db' = db
      ]_vars

\* C11: Completed and Cancelled are terminal: no step changes the status of an
\* appointment that is Completed or Cancelled.
C11_TerminalStatusStays ==
    [][\A a \in db.appointments :
         a.status \in {"Completed", "Cancelled"} =>
            SelectAppt(db', a.id).status = a.status
      ]_vars

\* The last step of a publish whose writes are committed.
PublishEnds(p) == pc[p] = "publish_txn" /\ pc'[p] = "idle"

\* C12: a publish request never removes or changes a Held slot: every row that
\* is Held before a step of a publish is there after it, all columns equal.
C12_PublishKeepsHeld ==
    [][\A p \in Procs :
         ((loc[p].op = "publish" \/ loc'[p].op = "publish") /\ pc'[p] # pc[p]) =>
            \A s \in db.doctor_availability :
                s.is_booked = 1 => s \in db'.doctor_availability
      ]_vars

\* A publish was committed after a booking: rows were deleted, and the rows
\* left are Held.
C12_Witness ==
    /\ last.op = "publish" /\ last.res = "ok"
    /\ db.seq_da >= 2
    /\ db.doctor_availability # {}
    /\ \A s \in db.doctor_availability : s.is_booked = 1

\* The (start_time, end_time) pairs of the slots of a window, said without the
\* loop: the starts are start, start + length, ... as long as the slot ends by end.
WindowKeys(entry, slot_length) ==
    IF ~entry.enabled THEN {}
    ELSE LET st == time_to_minutes(entry.start_time)
             en == time_to_minutes(entry.end_time)
         IN  {<<FormatTime(c), FormatTime(c + slot_length)>> :
                 c \in {x \in st..en : (x - st) % slot_length = 0
                                        /\ x + slot_length <= en}}

DayRows(D, doc, date) ==
    {s \in D.doctor_availability : s.doctor_id = doc /\ s.date = date}

KeysOf(rows) == {<<s.start_time, s.end_time>> : s \in rows}

\* C13: when a publish commits, on every day of the horizon the provider's
\* Free slots are exactly the slots of the published window (none for a
\* disabled day) whose (start_time, end_time) no Held slot of that day has;
\* all of them are new rows, and the publish succeeds.
C13_FreeSlotsAreTheWindow ==
    [][\A p \in Procs :
         PublishEnds(p) =>
            /\ last'.res = "ok"
            /\ \A day \in Days :
                  LET doc    == loc[p].actor
                      held   == {s \in DayRows(db, doc, day) : s.is_booked = 1}
                      free   == {s \in DayRows(db', doc, day) : s.is_booked = 0}
                      window == WindowKeys(loc[p].form.days[day],
                                           loc[p].form.slot_length)
                  IN  /\ KeysOf(free) = window \ KeysOf(held)
                      /\ Cardinality(free) = Cardinality(KeysOf(free))
                      /\ \A s \in free : s.id > db.seq_da /\ IsFree(s)
      ]_vars

\* A republish whose first slot collided with the Held slot: the Held row 1
\* stayed, row 2 was deleted and the only new row is the slot after the Held one.
C13_Witness ==
    /\ last.op = "publish" /\ last.res = "ok"
    /\ db.seq_da = 3
    /\ \E h, f \in db.doctor_availability :
          /\ db.doctor_availability = {h, f}
          /\ h.id = 1 /\ h.is_booked = 1
          /\ f.id = 3 /\ f.is_booked = 0 /\ f.start_time = h.end_time

\* C14: the slots generated for a valid (start, end, length) on an empty day,
\* in the order of their insertion: the first starts at start, each lasts
\* length minutes, each next one starts where the previous ends, every end is
\* <= end, one more slot would end after end, and there is none when
\* start + length > end.  Every stored time is a time of day, minutes below 60.
C14_GeneratedSlots ==
    [][PublishEnds(1) =>
         LET e    == loc[1].form.days[1]
             L    == loc[1].form.slot_length
             st   == time_to_minutes(e.start_time)
             en   == time_to_minutes(e.end_time)
             rows == db'.doctor_availability
             n    == Cardinality(rows)
         IN  /\ db.doctor_availability = {}
             /\ {s.id : s \in rows} = 1..n
             /\ \A s \in rows :
                   /\ s.doctor_id = loc[1].actor /\ s.date = 1 /\ IsFree(s)
                   /\ s.start_time[2] \in 0..59 /\ s.end_time[2] \in 0..59
                   /\ time_to_minutes(s.start_time) = st + (s.id - 1) * L
                   /\ time_to_minutes(s.end_time) = time_to_minutes(s.start_time) + L
                   /\ time_to_minutes(s.end_time) <= en
             /\ \A s, t \in rows : t.id = s.id + 1 => t.start_time = s.end_time
             /\ st + (n + 1) * L > en
             /\ (st + L > en) => n = 0
      ]_vars

\* A window that is no multiple of the length was generated across the hour:
\* 09:30-10:10 in 15-minute slots gives 09:30, 09:45 and nothing after 10:00.
C14_Witness ==
    /\ last.op = "publish" /\ last.res = "ok"
    /\ Cardinality(db.doctor_availability) = 2
    /\ \E s \in db.doctor_availability :
          s.id = 2 /\ s.start_time = <<9, 45>> /\ s.end_time = <<10, 0>>

\* The slots by (provider, date, start_time, end_time, state, holder).
SlotView(D) ==
    {<<s.doctor_id, s.date, s.start_time, s.end_time, s.is_booked, s.booked_by>> :
        s \in D.doctor_availability}

\* The provider's slots are what a publish of this form leaves: on every day
\* the Free ones are the window's slots that no Held slot has.
AsPublished(D, doc, form) ==
    \A day \in Days :
        LET rows == DayRows(D, doc, day) IN
        KeysOf({s \in rows : s.is_booked = 0}) =
            WindowKeys(form.days[day], form.slot_length)
                \ KeysOf({s \in rows : s.is_booked = 1})

\* C15: a publish of windows and a slot length that the provider's slots
\* already are the publication of (the same form was published before and no
\* booking came in between) leaves the same slots by (provider, date,
\* start_time, end_time, state, holder), and the same appointments.
C15_RepublishIsIdempotent ==
    [][\A p \in Procs :
         (PublishEnds(p) /\ AsPublished(db, loc[p].actor, loc[p].form)) =>
            /\ last'.res = "ok"
            /\ SlotView(db') = SlotView(db)
            /\ db'.appointments = db.appointments
      ]_vars

\* The one-slot window 09:00-09:10 was published twice: the second publish
\* replaced row 1 by row 2, the same slot.
C15_Witness ==
    /\ last.op = "publish" /\ last.res = "ok"
    /\ db.seq_da = 2
    /\ SlotView(db) = {<<1, 1, <<9, 0>>, <<9, 10>>, 0, NULL>>}

\* What the form must not be: a slot length that is no positive multiple of 5,
\* or an enabled day whose start or end is off the 5-minute grid or outside
\* 09:00-21:00, or whose start is not before its end.
BadDay(e) ==
    /\ e.enabled
    /\ \/ e.start_time[2] % 5 # 0
       \/ e.end_time[2] % 5 # 0
       \/ e.start_time[1] * 60 + e.start_time[2] \notin (9 * 60)..(21 * 60)
       \/ e.end_time[1] * 60 + e.end_time[2] \notin (9 * 60)..(21 * 60)
       \/ e.start_time[1] * 60 + e.start_time[2] >= e.end_time[1] * 60 + e.end_time[2]

BadForm(f) ==
    \/ f.slot_length <= 0
    \/ f.slot_length % 5 # 0
    \/ \E d \in Days : BadDay(f.days[d])

\* C16: a publish of a form with a bad slot length or a bad enabled day is
\* rejected with a validation failure at once, whatever the other days are,
\* and no slot and no appointment is inserted, deleted or changed.
C16_BadFormIsRejected ==
    [][\A p \in Procs, d \in Doctors, f \in ValForms :
         (BadForm(f) /\ PublishStart(p, d, f)) =>
            /\ pc'[p] = "idle"
            /\ last' = [op |-> "publish", who |-> "doctor", res |-> "ValidationError"]
            /\ db' = db
      ]_vars

\* A form was rejected while the doctor has a Held slot and a Free slot, and no
\* publish is under way.
C16_Witness ==
    /\ last.op = "publish" /\ last.res = "ValidationError"
    /\ \A p \in Procs : pc[p] = "idle"
    /\ \E s, t \in db.doctor_availability : s.is_booked = 1 /\ t.is_booked = 0

\* The step in which a Book re-reads its slot under the write lock and ends.
BookEnds(p) == pc[p] = "book_txn" /\ pc'[p] = "idle"

\* C17: a Book whose slot is Held, or gone, when it is re-read inside the
\* transaction ends with SlotUnavailable and changes no appointment and no
\* slot, whatever the request saw before it took the lock.
C17_RereadRefusesHeldOrGone ==
    [][\A p \in Procs :
         LET s == SelectSlot(db, loc[p].slot_id) IN
         (BookEnds(p) /\ (s.id = 0 \/ s.is_booked = 1)) =>
            /\ last' = [op |-> "book", who |-> "patient", res |-> "SlotUnavailable"]
            /\ db' = db
      ]_vars

\* A Book found its slot at first, a publish that unchecked the day deleted it,
\* and the re-read answered SlotUnavailable: no slot is left.
C17_Witness ==
    /\ last.op = "book" /\ last.res = "SlotUnavailable"
    /\ db.seq_da >= 1
    /\ db.doctor_availability = {}

\* C18: a Book of a Free slot by a requester who has a Booked appointment with
\* the slot's provider at the slot's date and start time ends with
\* DuplicateBooking and changes no appointment and no slot.
C18_DuplicateBookingRefused ==
    [][\A p \in Procs :
         LET s == SelectSlot(db, loc[p].slot_id) IN
         (/\ BookEnds(p)
          /\ s.id # 0 /\ s.is_booked = 0
          /\ \E a \in RowsAt(db, s) :
                a.patient_id = loc[p].actor /\ a.status = "Booked") =>
            /\ last' = [op |-> "book", who |-> "patient", res |-> "DuplicateBooking"]
            /\ db' = db
      ]_vars

\* A Book was refused as a duplicate: the requester's Booked appointment and a
\* Free slot are at the same provider, date and start time.
C18_Witness ==
    /\ last.op = "book" /\ last.res = "DuplicateBooking"
    /\ \E a \in db.appointments : \E s \in SlotsAt(db, a) :
          a.status = "Booked" /\ s.is_booked = 0

\* C19: a Reschedule that ends while its target slot is Held or gone does not
\* succeed, and one that ends while the target is a Free slot of another
\* provider than the appointment's does not succeed either; in both cases no
\* appointment and no slot changes.  (The claim names the answers:
\* SlotUnavailable and ProviderMismatch.)
C19_RescheduleRefusesBadTarget ==
    [][\A p \in Procs :
         LET B == SelectSlot(db, loc[p].slot_id) IN
         (/\ pc[p] \in {"resch_txn", "resch_fresh", "resch_upd_txn"}
          /\ pc'[p] = "idle"
          /\ \/ B.id = 0
             \/ B.is_booked = 1
             \/ B.doctor_id # loc[p].appt.doctor_id) =>
            /\ last'.res # "ok"
            /\ db' = db
      ]_vars

\* C20: a Reschedule request for an appointment of another patient is
\* rejected at once (the handler answers "Appointment not found") and changes
\* no appointment and no slot.
C20_OnlyOwnerReschedules ==
    [][\A p \in Procs, u \in Patients, a \in ApptIds, s \in SlotIds :
         (/\ pc[p] = "idle"
          /\ SelectAppt(db, a).id # 0
          /\ SelectAppt(db, a).patient_id # u
          /\ RescheduleStart(p, u, a, s)) =>
            /\ pc'[p] = "idle"
            /\ last' = [op |-> "reschedule", who |-> "patient", res |-> "NotFound"]
            /\ db' = db
      ]_vars

\* A reschedule was refused while every appointment is Booked and every slot
\* it could have moved to is there: the requester was not the owner.
C20_Witness ==
    /\ last.op = "reschedule" /\ last.res = "NotFound"
    /\ Cardinality(db.appointments) = MaxApptId
    /\ \A a \in db.appointments : a.status = "Booked"

\* C21: the commit of a Cancel or of a Reschedule changes no slot that is
\* Held by another patient than the appointment's (the target slot of the
\* Reschedule aside): the release frees only what the appointment's requester
\* holds.
C21_ReleaseScopedToHolder ==
    [][\A p \in Procs :
         (pc[p] \in {"cancel_txn", "resch_txn", "resch_upd_txn"} /\ pc'[p] = "idle") =>
            \A s \in db.doctor_availability :
                (/\ s.is_booked = 1
                 /\ s.booked_by # loc[p].appt.patient_id
                 /\ ~(loc[p].op = "reschedule" /\ s.id = loc[p].slot_id))
                => s \in db'.doctor_availability
      ]_vars

\* C22: Cancel and Reschedule act as one unit each, so in no committed state
\* is an appointment Cancelled while a slot at its provider, date and time is
\* still Held by its requester.
C22_CancelledHoldsNoSlot ==
    \A a \in db.appointments :
        a.status = "Cancelled" =>
            \A s \in SlotsAt(db, a) : ~(s.is_booked = 1 /\ s.booked_by = a.patient_id)

\* A Booked appointment together with the slot row its requester holds for it.
Bookings(D) ==
    {<<a, s>> \in D.appointments \X D.doctor_availability :
        /\ a.status = "Booked"
        /\ s \in SlotsAt(D, a)
        /\ s.is_booked = 1 /\ s.booked_by = a.patient_id}

\* C23: a publish keeps every Booked appointment and the Held slot row that
\* goes with it; a Book that finds its slot deleted at the re-read fails with
\* SlotUnavailable and writes nothing; a Book that succeeds leaves a new Booked
\* appointment with the slot row Held for it, and the bookings there were.  So
\* Book never creates an appointment whose slot a publish has deleted or
\* deletes afterwards.
C23_BookingSurvivesPublish ==
    [][\A p \in Procs :
         /\ PublishEnds(p) => Bookings(db) \subseteq Bookings(db')
         /\ BookEnds(p) =>
               LET s == SelectSlot(db, loc[p].slot_id) IN
               IF s.id = 0
               THEN last'.res = "SlotUnavailable" /\ db' = db
               ELSE IF last'.res = "ok"
               THEN /\ Bookings(db) \subseteq Bookings(db')
                    /\ \E b \in Bookings(db') \ Bookings(db) :
                          /\ b[1].id = db'.seq_ap /\ b[1].patient_id = loc[p].actor
                          /\ b[2].id = s.id
               ELSE db' = db
      ]_vars

\* A publish was committed after a Book: the Booked appointment and its Held
\* slot row 1 are there, beside a Free slot the publish inserted.
C23_Witness ==
    /\ last.op = "publish" /\ last.res = "ok"
    /\ \E b \in Bookings(db) : b[2].id = 1
    /\ \E s \in db.doctor_availability : s.is_booked = 0 /\ s.id = 3

\* C24: a Cancel sent by a patient for an appointment of another patient, or
\* by a doctor for an appointment with another doctor, does not succeed and
\* changes no appointment and no slot.
C24_OnlyOwnerCancels ==
    [][\A p \in Procs :
         (/\ Ends(p, "cancel")
          /\ loc[p].appt.id # 0
          /\ \/ loc[p].who = "patient" /\ loc[p].appt.patient_id # loc[p].actor
             \/ loc[p].who = "doctor" /\ loc[p].appt.doctor_id # loc[p].actor) =>
            /\ last'.res # "ok"
            /\ db' = db
      ]_vars

\* C25: every Book, Cancel or Reschedule that has started ends, committed or
\* failed, and when it has ended its connection does not hold the write lock.
C25_EveryCallEnds ==
    \A p \in Procs :
        (pc[p] # "idle" /\ loc[p].op \in {"book", "cancel", "reschedule"})
            ~> (pc[p] = "idle" /\ lock # p)

\* The loser of a race for the lock has ended in failure: its Book was
\* answered "database is locked" while the winner's Book is still in its
\* transaction.
C25_Witness ==
    /\ last.op = "book" /\ last.res = "Locked"
    /\ \E p, q \in Procs :
          pc[p] = "idle" /\ pc[q] = "book_txn" /\ lock = q

\* C26: a Reschedule whose target slot passes the checks but whose UPDATE of
\* the appointment hits the unique key on (provider, date, time), because
\* another appointment row, Cancelled or not, has the target's date and time,
\* fails and leaves both tables as they were: the release is undone too.
C26_FailedRescheduleRollsBack ==
    [][\A p \in Procs :
         LET B == IF pc[p] = "resch_txn" THEN SelectSlot(db, loc[p].slot_id)
                  ELSE loc[p].fresh
         IN  (/\ pc[p] \in {"resch_txn", "resch_upd_txn"} /\ pc'[p] = "idle"
              /\ SelectAppt(db, loc[p].appt.id).id # 0
              /\ RescheduleCheck(B, loc[p].appt) = "ok"
              /\ \E a \in db.appointments :
                    /\ a.id # loc[p].appt.id
                    /\ a.doctor_id = loc[p].appt.doctor_id
                    /\ a.date = B.date /\ a.time = B.start_time) =>
                /\ last' = [op |-> "reschedule", who |-> "patient",
                            res |-> "IntegrityError"]
                /\ db' = db
      ]_vars

\* A reschedule onto a Free slot at the date and time of a Cancelled
\* appointment has failed: the requester's Booked appointment still has its
\* Held slot and the target is Free.
C26_Witness ==
    /\ last.op = "reschedule" /\ last.res = "IntegrityError"
    /\ \E b \in Bookings(db) :
          \E c \in db.appointments :
             /\ c.status = "Cancelled"
             /\ \E t \in SlotsAt(db, c) : t.is_booked = 0 /\ t.id # b[2].id

\* C27: in every reachable state a slot is Held (is_booked = 1) exactly when
\* its holder (booked_by) and its hold timestamp (booked_at) are both set, and a
\* Free slot has both cleared: every write of a slot sets or clears the three
\* fields together.
C27_HoldFieldsTogether ==
    \A s \in db.doctor_availability :
        /\ s.is_booked \in {0, 1}
        /\ s.is_booked = 1 <=> (s.booked_by # NULL /\ s.booked_at # "NULL")
        /\ s.is_booked = 0 => (s.booked_by = NULL /\ s.booked_at = "NULL")

\* A reschedule has released one slot and claimed another, after a cancel has
\* released a third one.
C27_Witness ==
    /\ last.op = "reschedule" /\ last.res = "ok"
    /\ \E s, t \in db.doctor_availability :
          /\ s.is_booked = 1 /\ t.is_booked = 0
          /\ \E a \in db.appointments :
                a.status = "Booked" /\ a.date = t.date /\ a.time # t.start_time
    /\ \E c \in db.appointments : c.status = "Cancelled"

\* C28: with one request at a time, starting from empty tables, every Booked
\* appointment has exactly one Held slot at its (provider, date, time) and the
\* holder of that slot is the appointment's requester; every Held slot has
\* exactly one Booked or Completed appointment at its (provider, date, start
\* time) and the requester of that appointment is the slot's holder.
C28_SlotsMatchAppointments ==
    /\ \A a \in db.appointments :
          a.status = "Booked" =>
              LET held == {s \in SlotsAt(db, a) : s.is_booked = 1} IN
              /\ Cardinality(held) = 1
              /\ \A s \in held : s.booked_by = a.patient_id
    /\ \A s \in db.doctor_availability :
          s.is_booked = 1 =>
              LET live == {a \in RowsAt(db, s) : a.status \in {"Booked", "Completed"}} IN
              /\ Cardinality(live) = 1
              /\ \A a \in live : a.patient_id = s.booked_by

\* After a complete and a reschedule, one appointment is Completed and one is
\* Booked, each with its Held slot, beside a Free slot.
C28_Witness ==
    /\ Alone
    /\ last.op = "reschedule" /\ last.res = "ok"
    /\ Bookings(db) # {}
    /\ \E c \in db.appointments :
          /\ c.status = "Completed"
          /\ \E s \in SlotsAt(db, c) : s.is_booked = 1 /\ s.booked_by = c.patient_id
    /\ \E t \in db.doctor_availability : t.is_booked = 0

\* C29: no provider is double-booked in overlapping time: in every reachable
\* state no two Held slots of one provider on one date have overlapping
\* [start_time, end_time) intervals, also after a republish of the day with
\* another start or slot length while a slot of that day is Held.
C29_NoOverlappingHolds ==
    \A s, t \in db.doctor_availability :
        (/\ s.id # t.id
         /\ s.is_booked = 1 /\ t.is_booked = 1
         /\ s.doctor_id = t.doctor_id /\ s.date = t.date) =>
            \/ time_to_minutes(s.end_time) <= time_to_minutes(t.start_time)
            \/ time_to_minutes(t.end_time) <= time_to_minutes(s.start_time)

\* C30: a Complete by the appointment's provider that runs to its commit
\* writes no slot; it moves an appointment that is Booked to Completed,
\* changes nothing when the appointment is Cancelled and leaves a Completed
\* one Completed; and the slot a Completed appointment's requester holds for
\* it stays Held by that requester at every later step, so it is never
\* offered as Free again.
C30_CompleteKeepsSlot ==
    [][/\ \A p \in Procs :
            (pc[p] = "complete_txn" /\ pc'[p] = "idle") =>
                LET cur == SelectAppt(db, loc[p].appt.id)
                    new == SelectAppt(db', loc[p].appt.id)
                IN  /\ db'.doctor_availability = db.doctor_availability
                    /\ cur.id # 0 =>
                          /\ cur.status = "Booked" => new.status = "Completed"
                          /\ cur.status = "Cancelled" => db' = db
                          /\ cur.status = "Completed" => new.status = "Completed"
       /\ \A a \in db.appointments :
            a.status = "Completed" =>
                \A s \in SlotsAt(db, a) :
                    (s.is_booked = 1 /\ s.booked_by = a.patient_id)
                        => s \in db'.doctor_availability
      ]_vars

====
